---- MODULE Spec2Model ----
(***************************************************************************)
(* Model of src/sage/repl/ipython_kernel/kernel.py: the SageKernel class,  *)
(* its constructor, and its banner and help_links properties.              *)
(*                                                                         *)
(* Python strings are TLA+ strings; the two formatting calls of the file   *)
(* (str.format with positional fields, and the % operator with %i) are     *)
(* computed character by character.  The collaborators that the file only  *)
(* calls (IPythonKernel.__init__, SageCustomizations, banner_text,         *)
(* SageKernelSpec.identifier, sys.version_info, SAGE_VERSION) are          *)
(* environment state: what they return or raise is drawn from small sets.  *)
(***************************************************************************)
EXTENDS Integers, Sequences, FiniteSets, TLC

VARIABLES
    cls,        \* class attributes of SageKernel (kernel.py 31-34)
    kernels,    \* the SageKernel instances: status, shell, trace of __init__
    sageEnv,    \* sage.env.SAGE_VERSION and the state banner_text() reads
    idState,    \* what SageKernelSpec.identifier() does when called now
    pyVersion,  \* sys.version_info[:2]
    heap,       \* the list objects returned by help_links that are still referenced
    held,       \* the caller's variable: a reference to a returned list, or NoRef
    ret         \* outcome of the last operation, as its caller sees it

vars == <<cls, kernels, sageEnv, idState, pyVersion, heap, held, ret>>

----------------------------------------------------------------------------
(* Bounds and input sets *)

NumKernels == 2
MaxIdLen == 1

Kernels == 1..NumKernels

\* characters an identifier is built from ("/" is the separator the url
\* template itself uses)
IdAlphabet == {"s", "/"}

RECURSIVE StringsUpTo(_)
StringsUpTo(n) ==
    IF n = 0 THEN {""}
    ELSE LET shorter == StringsUpTo(n - 1)
         IN  shorter \cup {s \o c : s \in shorter, c \in IdAlphabet}

Identifiers == StringsUpTo(MaxIdLen)

Majors == {3, 31}
Minors == {1, 9, 11}
Versions == Majors \X Minors

Errors == {"ImportError", "KeyError"}
SageVersions == {"6.8", "6.9.beta1"}

NoRef == 0
NoShell == 0
NoKernelId == 0
NoError == "no error"

----------------------------------------------------------------------------
(* Python string formatting *)

Digits == "0123456789"

Digit(d) == SubSeq(Digits, d + 1, d + 1)

\* '%i' of a non-negative int
RECURSIVE FormatNat(_)
FormatNat(n) ==
    IF n < 10 THEN Digit(n) ELSE FormatNat(n \div 10) \o Digit(n % 10)

\* '%i' of an int
FormatInt(n) == IF n < 0 THEN "-" \o FormatNat(-n) ELSE FormatNat(n)

StrTail(s, i) == SubSeq(s, i, Len(s))

Lit(text) == [kind |-> "lit", text |-> text, index |-> 0]
Field(n) == [kind |-> "field", text |-> "", index |-> n]
Flush(lit) == IF lit = "" THEN <<>> ELSE <<Lit(lit)>>

FieldIndex == [c \in {"0", "1"} |-> IF c = "0" THEN 1 ELSE 2]

\* the parse of a str.format template whose replacement fields are {0} and
\* {1}: its literal texts and its fields, in order (lit is the literal text
\* read so far)
RECURSIVE format_pieces(_, _)
format_pieces(tpl, lit) ==
    IF tpl = "" THEN Flush(lit)
    ELSE IF /\ Len(tpl) >= 3
            /\ SubSeq(tpl, 1, 1) = "{"
            /\ SubSeq(tpl, 2, 2) \in DOMAIN FieldIndex
            /\ SubSeq(tpl, 3, 3) = "}"
         THEN Flush(lit) \o <<Field(FieldIndex[SubSeq(tpl, 2, 2)])>>
                  \o format_pieces(StrTail(tpl, 4), "")
         ELSE format_pieces(StrTail(tpl, 2), lit \o SubSeq(tpl, 1, 1))

\* the parse of a % template whose only conversion is %i: the n-th %i takes
\* the n-th argument (n counts the conversions read so far)
RECURSIVE percent_pieces(_, _, _)
percent_pieces(tpl, lit, n) ==
    IF tpl = "" THEN Flush(lit)
    ELSE IF Len(tpl) >= 2 /\ SubSeq(tpl, 1, 2) = "%i"
         THEN Flush(lit) \o <<Field(n + 1)>> \o percent_pieces(StrTail(tpl, 3), "", n + 1)
         ELSE percent_pieces(StrTail(tpl, 2), lit \o SubSeq(tpl, 1, 1), n)

\* the pieces joined, each field replaced by the text of its argument
RECURSIVE substitute(_, _)
substitute(pieces, texts) ==
    IF pieces = <<>> THEN ""
    ELSE LET p == Head(pieces)
         IN  (IF p.kind = "lit" THEN p.text ELSE texts[p.index])
                 \o substitute(Tail(pieces), texts)

----------------------------------------------------------------------------
(* help_links *)

KernelUrlTemplate == format_pieces("/kernelspecs/{0}/{1}", "")

PythonUrlTemplate == percent_pieces("http://docs.python.org/%i.%i", "", 0)

\* kernel_url giving no url when there is no identifier
kernel_url_guarded(identifier, x) ==
    IF identifier = "" THEN ""
    ELSE substitute(KernelUrlTemplate, <<identifier, x>>)

\* kernel_url with the arguments of format in the wrong order
kernel_url_swapped(identifier, x) == substitute(KernelUrlTemplate, <<x, identifier>>)

\* kernel_url = lambda x: '/kernelspecs/{0}/{1}'.format(identifier, x)
kernel_url(identifier, x) == substitute(KernelUrlTemplate, <<identifier, x>>)

\* the Python url with the dot between the two numbers left out
python_url_nodot(version) ==
    substitute(percent_pieces("http://docs.python.org/%i%i", "", 0),
               [i \in DOMAIN version |-> FormatInt(version[i])])

\* "http://docs.python.org/%i.%i" % sys.version_info[:2]
python_url(version) ==
    substitute(PythonUrlTemplate, [i \in DOMAIN version |-> FormatInt(version[i])])

Link(text, url) == [text |-> text, url |-> url]

\* the list display of help_links, given the resolved identifier and
\* sys.version_info[:2]
help_links_list(identifier, version) ==
    << Link("Sage Documentation", kernel_url(identifier, "doc/index.html")),
       Link("Sage Tutorial", kernel_url(identifier, "doc/tutorial/index.html")),
       Link("Thematic Tutorials", kernel_url(identifier, "doc/thematic_tutorials/index.html")),
       Link("FAQs", kernel_url(identifier, "doc/faq/index.html")),
       Link("PREP Tutorials", kernel_url(identifier, "doc/prep/index.html")),
       Link("Sage Reference", kernel_url(identifier, "doc/reference/index.html")),
       Link("Developers Guide", kernel_url(identifier, "doc/developer/index.html")),
       Link("Python", python_url(version)),
       Link("IPython", "http://ipython.org/documentation.html"),
       Link("Singular", "http://www.singular.uni-kl.de/Manual/latest/index.htm"),
       Link("GAP", "http://gap-system.org/Manuals/doc/ref/chap0.html"),
       Link("NumPy", "http://docs.scipy.org/doc/numpy/reference/"),
       Link("SciPy", "http://docs.scipy.org/doc/scipy/reference/"),
       Link("SymPy", "http://docs.sympy.org/latest/index.html"),
       Link("Matplotlib", "http://matplotlib.org/contents.html"),
       Link("Markdown", "http://help.github.com/articles/github-flavored-markdown") >>

----------------------------------------------------------------------------
(* Outcomes of calls *)

Return(v) == [kind |-> "return", val |-> v, err |-> NoError]
Raise(e) == [kind |-> "raise", val |-> NoRef, err |-> e]

\* what SageKernelSpec.identifier() (with its import, line 47) can do
IdOutcomes == {Return(i) : i \in Identifiers} \cup {Raise(e) : e \in Errors}

\* help_links losing its last record
help_links_truncated(self, resolver, version) ==
    IF resolver.kind = "raise"
    THEN [kind |-> "raise", err |-> resolver.err, list |-> <<>>,
          calls |-> <<resolver>>]
    ELSE LET l == help_links_list(resolver.val, version)
         IN  [kind |-> "return", err |-> NoError,
              list |-> SubSeq(l, 1, Len(l) - 1), calls |-> <<resolver>>]

\* help_links catching the resolver's error and returning only the links
\* that need no identifier
help_links_swallow(self, resolver, version) ==
    IF resolver.kind = "raise"
    THEN [kind |-> "return", err |-> NoError,
          list |-> SubSeq(help_links_list("", version), 8, 16),
          calls |-> <<resolver>>]
    ELSE [kind |-> "return", err |-> NoError,
          list |-> help_links_list(resolver.val, version),
          calls |-> <<resolver>>]

\* the property body of help_links (lines 47-115): one call of
\* SageKernelSpec.identifier(), whose outcome is resolver; calls lists the
\* outcomes of the resolver calls made, list the value of the list display
help_links(self, resolver, version) ==
    IF resolver.kind = "raise"
    THEN [kind |-> "raise", err |-> resolver.err, list |-> <<>>,
          calls |-> <<resolver>>]
    ELSE [kind |-> "return", err |-> NoError,
          list |-> help_links_list(resolver.val, version),
          calls |-> <<resolver>>]

FreshRef(h) == CHOOSE r \in 1..(Cardinality(DOMAIN h) + 1) : r \notin DOMAIN h

\* help_links keeping the list it built and returning that same object
\* again
CachedList(h, items) ==
    IF DOMAIN h # {}
    THEN [ref |-> CHOOSE r \in DOMAIN h : TRUE, heap |-> h]
    ELSE [ref |-> 1, heap |-> (1 :> [val |-> items, orig |-> items])]

\* evaluating a list display: a new list object; orig keeps its content
\* at creation
NewList(h, items) ==
    LET r == FreshRef(h)
    IN  [ref |-> r, heap |-> h @@ (r :> [val |-> items, orig |-> items])]

\* the objects still referenced once the caller holds refs
Reachable(h, refs) == [r \in DOMAIN h \cap refs |-> h[r]]

----------------------------------------------------------------------------
(* banner *)

\* sage.misc.banner.banner_text(): the text describing the version that
\* the global version state holds, or the error the generator raises
banner_text(env) ==
    IF env.banner_err # NoError THEN Raise(env.banner_err)
    ELSE Return("SageMath Version " \o env.banner_version)

\* banner catching the generator's error and returning no text
SageKernel_banner_swallow(self, gen) ==
    IF gen.kind = "raise" THEN Return("") ELSE gen

\* the property body of banner (lines 42-43): gen is the outcome of
\* banner_text()
SageKernel_banner(self, gen) == gen

----------------------------------------------------------------------------
(* The class and its constructor *)

\* the class body without its override of implementation
SageKernel_class_inherited(sage_version) ==
    [implementation |-> "ipython",
     implementation_version |-> sage_version,
     shell_class |-> "SageZMQInteractiveShell"]

\* class body, lines 31-34
SageKernel_class(sage_version) ==
    [implementation |-> "sage",
     implementation_version |-> sage_version,
     shell_class |-> "SageZMQInteractiveShell"]

\* attribute lookup on an instance: no instance attribute shadows the
\* class attributes
GetAttr(k, name) == cls[name]

NoKernel == [status |-> "absent", shell |-> NoShell, err |-> NoError, trace |-> <<>>]

\* the base initializer (line 37): base is its outcome, shell the shell
\* instance it creates
IPythonKernel__init__(self, base, shell) ==
    IF base.kind = "raise"
    THEN [self EXCEPT !.status = "failed", !.err = base.err,
              !.trace = Append(@, [call |-> "IPythonKernel.__init__",
                                   shell |-> NoShell, err |-> base.err])]
    ELSE [self EXCEPT !.status = "live", !.shell = shell,
              !.trace = Append(@, [call |-> "IPythonKernel.__init__",
                                   shell |-> shell, err |-> NoError])]

\* SageCustomizations(self.shell) (line 38)
SageCustomizations(self) ==
    [self EXCEPT !.trace = Append(@, [call |-> "SageCustomizations",
                                      shell |-> self.shell, err |-> NoError])]

\* __init__ applying the hook a second time
SageKernel__init__twice(self, base, shell) ==
    LET afterBase == IPythonKernel__init__(self, base, shell)
    IN  IF afterBase.status = "failed" THEN afterBase
        ELSE SageCustomizations(SageCustomizations(afterBase))

\* __init__ applying the hook in a finally clause, base failure or not
SageKernel__init__finally(self, base, shell) ==
    SageCustomizations(IPythonKernel__init__(self, base, shell))

\* SageKernel.__init__ (lines 36-38)
SageKernel__init__(self, base, shell) ==
    LET afterBase == IPythonKernel__init__(self, base, shell)
    IN  IF afterBase.status = "failed" THEN afterBase
        ELSE SageCustomizations(afterBase)

BaseOutcomes == {Return(NoRef)} \cup {Raise(e) : e \in Errors}

ShellsOf(ks) == {ks[k].shell : k \in DOMAIN ks} \ {NoShell}

NewShell(ks) == CHOOSE s \in 1..(Cardinality(ShellsOf(ks)) + 1) : s \notin ShellsOf(ks)

----------------------------------------------------------------------------
(* State *)

\* ret when nothing has been returned yet, or the caller has taken the
\* result; calls lists the outcomes of the collaborator calls the operation
\* made, at is the version state a banner read saw
Idle == [op |-> "none", k |-> NoKernelId, kind |-> "return", val |-> NoRef,
         err |-> NoError, calls |-> <<>>, at |-> <<>>]

Env(sv) == [SAGE_VERSION |-> sv, banner_version |-> sv, banner_err |-> NoError]

\* all kernels constructed, one after the other, the base initializer
\* succeeding
RECURSIVE Constructed(_)
Constructed(n) ==
    IF n = 0 THEN [k \in Kernels |-> NoKernel]
    ELSE LET ks == Constructed(n - 1)
         IN  [ks EXCEPT ![n] = SageKernel__init__(@, Return(NoRef), NewShell(ks))]

InitLife ==
    /\ \E sv \in SageVersions :
          /\ cls = SageKernel_class(sv)
          /\ sageEnv = Env(sv)
    /\ kernels = [k \in Kernels |-> NoKernel]
    /\ idState \in IdOutcomes
    /\ pyVersion = <<3, 9>>
    /\ heap = <<>>
    /\ held = NoRef
    /\ ret = Idle

InitLinks ==
    /\ \E sv \in SageVersions :
          /\ cls = SageKernel_class(sv)
          /\ sageEnv = Env(sv)
    /\ kernels = Constructed(1)
    /\ idState \in IdOutcomes
    /\ pyVersion \in Versions
    /\ heap = <<>>
    /\ held = NoRef
    /\ ret = Idle

----------------------------------------------------------------------------
(* Operations *)

\* SageKernel(**kwds)
Construct(k, base) ==
    /\ kernels[k].status = "absent"
    /\ kernels' = [kernels EXCEPT ![k] = SageKernel__init__(@, base, NewShell(kernels))]
    /\ ret' = [Idle EXCEPT !.op = "__init__", !.k = k,
                           !.kind = IF kernels'[k].status = "failed"
                                    THEN "raise" ELSE "return",
                           !.err = kernels'[k].err,
                           !.calls = <<base>>]
    /\ heap' = Reachable(heap, {held})
    /\ UNCHANGED <<cls, sageEnv, idState, pyVersion, held>>

\* kernel.banner
Banner(k) ==
    /\ kernels[k].status = "live"
    /\ LET gen == banner_text(sageEnv)
           out == SageKernel_banner(k, gen)
       IN  ret' = [Idle EXCEPT !.op = "banner", !.k = k, !.kind = out.kind,
                               !.val = out.val, !.err = out.err,
                               !.calls = <<gen>>,
                               !.at = <<sageEnv.banner_version, sageEnv.banner_err>>]
    /\ heap' = Reachable(heap, {held})
    /\ UNCHANGED <<cls, kernels, sageEnv, idState, pyVersion, held>>

\* kernel.help_links
HelpLinks(k) ==
    /\ kernels[k].status = "live"
    /\ LET out == help_links(k, idState, pyVersion)
       IN  IF out.kind = "raise"
           THEN /\ ret' = [Idle EXCEPT !.op = "help_links", !.k = k, !.kind = "raise",
                                       !.err = out.err, !.calls = out.calls]
                /\ heap' = Reachable(heap, {held})
           ELSE LET new == NewList(Reachable(heap, {held}), out.list)
                IN  /\ ret' = [Idle EXCEPT !.op = "help_links", !.k = k,
                                           !.val = new.ref, !.calls = out.calls]
                    /\ heap' = new.heap
    /\ UNCHANGED <<cls, kernels, sageEnv, idState, pyVersion, held>>

\* the caller binds the list just returned to its variable
Hold ==
    /\ ret.op = "help_links"
    /\ ret.kind = "return"
    /\ held' = ret.val
    /\ heap' = Reachable(heap, {ret.val})
    /\ ret' = Idle
    /\ UNCHANGED <<cls, kernels, sageEnv, idState, pyVersion>>

Mutations == {"del first", "del last", "append", "set url", "clear"}

Mutated(m, l) ==
    CASE m = "del first" -> Tail(l)
      [] m = "del last" -> SubSeq(l, 1, Len(l) - 1)
      [] m = "append" -> Append(l, Link("Extra", "http://example.org/"))
      [] m = "set url" -> [l EXCEPT ![1].url = ""]
      [] m = "clear" -> <<>>

\* the caller changes the list it holds (once per list)
Mutate(m) ==
    /\ held # NoRef
    /\ heap[held].val = heap[held].orig
    /\ heap' = [heap EXCEPT ![held].val = Mutated(m, @)]
    /\ UNCHANGED <<cls, kernels, sageEnv, idState, pyVersion, held, ret>>

\* the installed kernel spec changes: identifier() returns or raises
\* something else from now on
EnvIdentifier(o) ==
    /\ idState # o
    /\ idState' = o
    /\ UNCHANGED <<cls, kernels, sageEnv, pyVersion, heap, held, ret>>

\* the global version state banner_text() reads changes, or the generator
\* starts or stops failing
EnvBanner(v, e) ==
    /\ sageEnv' = [sageEnv EXCEPT !.banner_version = v, !.banner_err = e]
    /\ sageEnv' # sageEnv
    /\ UNCHANGED <<cls, kernels, idState, pyVersion, heap, held, ret>>

NextLife ==
    \/ \E k \in Kernels, base \in BaseOutcomes : Construct(k, base)
    \/ \E k \in Kernels : Banner(k)
    \/ \E k \in Kernels : HelpLinks(k)
    \/ \E v \in SageVersions, e \in Errors \cup {NoError} : EnvBanner(v, e)

NextLinks ==
    \/ \E k \in Kernels : HelpLinks(k)
    \/ Hold
    \/ \E m \in Mutations : Mutate(m)
    \/ \E o \in IdOutcomes : EnvIdentifier(o)

\* construction and property reads of the kernels
SpecLife == InitLife /\ [][NextLife]_vars

\* help_links under every identifier and interpreter version, with a
\* caller that keeps and changes the lists it gets
SpecLinks == InitLinks /\ [][NextLinks]_vars

----------------------------------------------------------------------------
(* Reading the state *)

Reads == {"banner", "help_links"}

\* the list a help_links access has just returned
Returned == heap[ret.val].val

LinksReturned == ret.op = "help_links" /\ ret.kind = "return"

\* how many times the customization hook was applied to shell s
HookCount(s) ==
    Cardinality(UNION {{<<k, i>> : i \in {j \in DOMAIN kernels[k].trace :
                                              /\ kernels[k].trace[j].call = "SageCustomizations"
                                              /\ kernels[k].trace[j].shell = s}} :
                       k \in Kernels})

StartsWith(s, p) == Len(s) >= Len(p) /\ SubSeq(s, 1, Len(p)) = p
EndsWith(s, p) == Len(s) >= Len(p) /\ SubSeq(s, Len(s) - Len(p) + 1, Len(s)) = p

DigitValue ==
    ("0" :> 0) @@ ("1" :> 1) @@ ("2" :> 2) @@ ("3" :> 3) @@ ("4" :> 4) @@
    ("5" :> 5) @@ ("6" :> 6) @@ ("7" :> 7) @@ ("8" :> 8) @@ ("9" :> 9)

\* s is the decimal numeral of a natural number
IsDecimal(s) ==
    /\ s # ""
    /\ \A i \in 1..Len(s) : SubSeq(s, i, i) \in DOMAIN DigitValue
    /\ Len(s) > 1 => SubSeq(s, 1, 1) # "0"

RECURSIVE DecimalValue(_)
DecimalValue(s) ==
    IF s = "" THEN 0
    ELSE 10 * DecimalValue(SubSeq(s, 1, Len(s) - 1))
            + DigitValue[SubSeq(s, Len(s), Len(s))]

PythonDocs == "http://docs.python.org/"

\* url is PythonDocs, the decimal major number, a dot, the decimal minor number
EncodesVersion(url, v) ==
    /\ StartsWith(url, PythonDocs)
    /\ LET rest == StrTail(url, Len(PythonDocs) + 1)
       IN  \E d \in 1..Len(rest) :
              /\ SubSeq(rest, d, d) = "."
              /\ IsDecimal(SubSeq(rest, 1, d - 1))
              /\ IsDecimal(StrTail(rest, d + 1))
              /\ DecimalValue(SubSeq(rest, 1, d - 1)) = v[1]
              /\ DecimalValue(StrTail(rest, d + 1)) = v[2]

Labels ==
    << "Sage Documentation", "Sage Tutorial", "Thematic Tutorials", "FAQs",
       "PREP Tutorials", "Sage Reference", "Developers Guide", "Python",
       "IPython", "Singular", "GAP", "NumPy", "SciPy", "SymPy", "Matplotlib",
       "Markdown" >>

DocPaths ==
    << "doc/index.html", "doc/tutorial/index.html",
       "doc/thematic_tutorials/index.html", "doc/faq/index.html",
       "doc/prep/index.html", "doc/reference/index.html",
       "doc/developer/index.html" >>

\* the identifier a list was built with, read back from its first url
IdOf(l) ==
    SubSeq(l[1].url, Len("/kernelspecs/") + 1, Len(l[1].url) - Len("/doc/index.html"))

----------------------------------------------------------------------------
(* Claims *)

\* C1: in every state reached by constructions and reads of banner and
\* help_links, the customization hook has been applied exactly once to the
\* shell of every constructed kernel: once by the constructor, never by a read.
C1_HookAppliedOnce ==
    \A k \in Kernels :
        kernels[k].status = "live" => HookCount(kernels[k].shell) = 1

\* two constructed kernels, each with its own shell, after a property read
C1_Witness ==
    /\ \A k \in Kernels : kernels[k].status = "live"
    /\ ret.op \in Reads
    /\ \A k \in Kernels : HookCount(kernels[k].shell) = 1

\* C2: a constructed kernel has called the base initializer first and then
\* the hook, on the shell the base initializer created; a kernel whose base
\* initializer failed has applied the hook zero times and its construction
\* raised the base initializer's error.
C2_HookAfterBaseInit ==
    \A k \in Kernels :
        LET self == kernels[k]
            t == self.trace
        IN  /\ self.status = "absent" => t = <<>>
            /\ self.status = "live" =>
                  /\ Len(t) = 2
                  /\ t[1].call = "IPythonKernel.__init__"
                  /\ t[1].err = NoError
                  /\ t[1].shell # NoShell
                  /\ t[2].call = "SageCustomizations"
                  /\ t[2].shell = t[1].shell
                  /\ self.shell = t[1].shell
                  /\ \A j \in Kernels \ {k} : kernels[j].shell # self.shell
            /\ self.status = "failed" =>
                  /\ Len(t) = 1
                  /\ t[1].call = "IPythonKernel.__init__"
                  /\ t[1].err \in Errors
                  /\ self.err = t[1].err
                  /\ self.shell = NoShell
            /\ (ret.op = "__init__" /\ ret.k = k) =>
                  /\ ret.kind = ret.calls[1].kind
                  /\ ret.err = ret.calls[1].err
                  /\ (ret.kind = "raise") = (self.status = "failed")

\* a construction has just failed while another kernel is constructed
C2_Witness ==
    /\ ret.op = "__init__"
    /\ ret.kind = "raise"
    /\ kernels[ret.k].status = "failed"
    /\ \E j \in Kernels : kernels[j].status = "live"

\* C3: every record of a list help_links returns has exactly the fields
\* text and url, both non-empty, whatever the identifier (the empty one
\* included) and the interpreter version.
C3_RecordsWellFormed ==
    LinksReturned =>
        \A i \in DOMAIN Returned :
            /\ DOMAIN Returned[i] = {"text", "url"}
            /\ Returned[i].text # ""
            /\ Returned[i].url # ""

\* a list returned under the empty identifier
C3_Witness ==
    /\ LinksReturned
    /\ ret.calls[1].val = ""
    /\ Len(Returned) > 0

\* C4: the record labelled Python has the url http://docs.python.org/
\* followed by the decimal major number, a dot and the decimal minor number
\* of the interpreter, and no other version gives that url.
C4_PythonUrlEncodesVersion ==
    LinksReturned =>
        /\ \E i \in DOMAIN Returned : Returned[i].text = "Python"
        /\ \A i \in DOMAIN Returned :
              Returned[i].text = "Python" =>
                 /\ EncodesVersion(Returned[i].url, pyVersion)
                 /\ EndsWith(Returned[i].url,
                             FormatNat(pyVersion[1]) \o "." \o FormatNat(pyVersion[2]))
                 /\ \A v \in Versions \ {pyVersion} :
                       ~EncodesVersion(Returned[i].url, v)
                 /\ \A v \in Versions \ {pyVersion} :
                       python_url(v) # Returned[i].url

\* a list returned under version 3.11, whose digits are those of 31.1
C4_Witness ==
    /\ LinksReturned
    /\ pyVersion = <<3, 11>>
    /\ <<31, 1>> \in Versions
    /\ Returned[8].url = "http://docs.python.org/3.11"

\* C5: every list help_links returns has the same 16 labels in the same
\* order, none of them twice.
C5_FixedLabels ==
    LinksReturned =>
        /\ Len(Returned) = 16
        /\ [i \in DOMAIN Returned |-> Returned[i].text] = Labels
        /\ \A i, j \in DOMAIN Returned :
              Returned[i].text = Returned[j].text => i = j

\* a second list returned, under another identifier than the list the
\* caller holds
C5_Witness ==
    /\ LinksReturned
    /\ held # NoRef
    /\ IdOf(heap[held].orig) # ret.calls[1].val
    /\ Len(Returned) = 16

\* C6: a list help_links returns is built anew: it is not an object
\* returned before, it has the content an earlier access under the same
\* identifier returned, whatever the caller did to that earlier list since,
\* and it is built with the identifier resolved by this access.
C6_RecomputedEachAccess ==
    LinksReturned =>
        /\ ret.val # held
        /\ Returned = heap[ret.val].orig
        /\ Len(Returned) > 0 /\ IdOf(Returned) = ret.calls[1].val
        /\ held # NoRef =>
              /\ IdOf(heap[held].orig) = ret.calls[1].val =>
                    Returned = heap[held].orig
              /\ IdOf(heap[held].orig) # ret.calls[1].val =>
                    Returned # heap[held].orig

\* the caller changed the list it holds, and a later access under the same
\* identifier has returned
C6_Witness ==
    /\ LinksReturned
    /\ held # NoRef
    /\ heap[held].val # heap[held].orig
    /\ IdOf(heap[held].orig) = ret.calls[1].val
    /\ Returned = heap[held].orig

\* C7: a help_links access whose identifier resolution fails raises the
\* resolver's error and returns no list; no help_links access changes the
\* kernels or the class attributes; and after a failed access, an access
\* made once resolution succeeds again returns the full list.
C7_ResolutionFailurePropagates ==
    /\ [](ret.op = "help_links" =>
            /\ ret.kind = ret.calls[1].kind
            /\ ret.kind = "raise" =>
                  /\ ret.err = ret.calls[1].err
                  /\ ret.err \in Errors
                  /\ ret.val = NoRef
                  /\ DOMAIN heap \subseteq {held})
    /\ [][ret'.op = "help_links" => kernels' = kernels /\ cls' = cls]_vars
    /\ [][(/\ ret.op = "help_links" /\ ret.kind = "raise"
           /\ ret'.op = "help_links" /\ ret' # ret
           /\ idState.kind = "return")
          => (/\ ret'.kind = "return"
              /\ Len(heap'[ret'.val].val) = 16
              /\ IdOf(heap'[ret'.val].val) = idState.val)]_vars

\* an access has failed and resolution succeeds again
C7_Witness ==
    /\ ret.op = "help_links"
    /\ ret.kind = "raise"
    /\ ret.err = "KeyError"
    /\ idState.kind = "return"
    /\ \A k \in Kernels : kernels[k].status = "live" => HookCount(kernels[k].shell) = 1

\* C8: in every state implementation is 'sage' and implementation_version
\* is SAGE_VERSION, for every kernel, and no step changes either.
C8_ImplementationConstant ==
    /\ [](\A k \in Kernels :
            /\ GetAttr(k, "implementation") = "sage"
            /\ GetAttr(k, "implementation_version") = sageEnv.SAGE_VERSION
            /\ GetAttr(k, "implementation_version") \in SageVersions)
    /\ [][/\ cls'.implementation = cls.implementation
          /\ cls'.implementation_version = cls.implementation_version]_vars

\* a banner read of a constructed kernel after the global version state
\* moved away from SAGE_VERSION
C8_Witness ==
    /\ ret.op = "banner"
    /\ kernels[ret.k].status = "live"
    /\ sageEnv.banner_version # sageEnv.SAGE_VERSION
    /\ GetAttr(ret.k, "implementation_version") = sageEnv.SAGE_VERSION

\* C9: a banner read returns exactly what the banner-text generator
\* produced, a non-empty string when the generator does not fail, and raises
\* exactly the generator's error when it does; it changes no kernel state;
\* two reads under the same version state give the same result.
C9_BannerIsGeneratorText ==
    /\ [](ret.op = "banner" =>
            /\ Len(ret.calls) = 1
            /\ ret.kind = ret.calls[1].kind
            /\ ret.err = ret.calls[1].err
            /\ (ret.at[2] = NoError) = (ret.kind = "return")
            /\ ret.kind = "return" =>
                  /\ ret.val = ret.calls[1].val
                  /\ ret.val # "")
    /\ [][ret'.op = "banner" => kernels' = kernels /\ cls' = cls]_vars
    /\ [][(ret.op = "banner" /\ ret'.op = "banner" /\ ret'.at = ret.at)
          => (/\ ret'.kind = ret.kind
              /\ ret'.err = ret.err
              /\ ret.kind = "return" => ret'.val = ret.val)]_vars

\* a banner read that raised the generator's error
C9_Witness ==
    /\ ret.op = "banner"
    /\ ret.kind = "raise"
    /\ ret.err = "ImportError"
    /\ ret.calls[1].err = "ImportError"

\* C10: a help_links access resolves the identifier once; the first seven
\* urls are '/kernelspecs/' + identifier + '/' + path with that identifier
\* and the seven documentation paths; the other nine urls are those of a
\* list built with any other identifier.
C10_KernelUrls ==
    ret.op = "help_links" =>
        /\ Len(ret.calls) = 1
        /\ LinksReturned =>
              /\ \A i \in 1..7 :
                    Returned[i].url =
                        "/kernelspecs/" \o ret.calls[1].val \o "/" \o DocPaths[i]
              /\ held # NoRef =>
                    \A i \in 8..16 : Returned[i].url = heap[held].orig[i].url

\* a list built with the identifier "/" while the caller holds one built
\* with another identifier
C10_Witness ==
    /\ LinksReturned
    /\ ret.calls[1].val = "/"
    /\ held # NoRef
    /\ IdOf(heap[held].orig) # "/"
    /\ Returned[1].url = "/kernelspecs///doc/index.html"

====
